---- MODULE Spec2Model ----
(***************************************************************************)
(* Model of the BIM question-answering routes (src/unnamed/part_000).      *)
(* The file holds two variants of the same route module:                   *)
(*   "two_stage" (lines 1-654): hint call, intent call, parameter call,    *)
(*               semantic search, LIMIT-bounded handlers;                  *)
(*   "unified"   (lines 656-1234): one analysis call, category resolved    *)
(*               against the model's categories, sum_volume handler.       *)
(* JavaScript strings are sequences of symbols; a symbol is one character  *)
(* ("D", "d", " ") or one whole word of an identifier ("level_number").    *)
(* JavaScript values are records [ty, s, n].  The store is a sequence of   *)
(* element rows; a row's id is its position.  SQLite is modelled by an     *)
(* evaluator of the statements the handlers build, binding the arguments   *)
(* to the placeholders in order.                                           *)
(***************************************************************************)
EXTENDS Integers, Sequences, FiniteSets, TLC

VARIABLES variant, db, req, pc, meta, hintCategory, plan1, plan2, analysis,
          category, plan, semantic, candidateIds, compiled, stmt, numeric,
          result, res, log

vars == <<variant, db, req, pc, meta, hintCategory, plan1, plan2, analysis,
          category, plan, semantic, candidateIds, compiled, stmt, numeric,
          result, res, log>>

(***************************************************************************)
(* Bounds of the model.                                                    *)
(***************************************************************************)
MaxStrLen == 2
MaxElems == 2

(***************************************************************************)
(* Program constants.                                                      *)
(***************************************************************************)
DEFAULT_LIMIT == 20
DEFAULT_TOP_K == 100
SAMPLE_LIMIT == 15
PROPS_SCAN_LIMIT == 50
AREA_KEYS_CAP == 200

Variants == {"two_stage", "unified"}

\* The fixed allow-list of column names (a Set of strings in the source).
ALLOWED_PARAMS ==
    { <<"level_number">>, <<"room_name">>, <<"room_type">>, <<"system_name">>,
      <<"system_type">>, <<"manufacturer">>, <<"model_name">>, <<"type_name">>,
      <<"family_name">>, <<"omniclass_title">> }

SAMPLE_KEYS ==
    << <<"level_number">>, <<"room_name">>, <<"room_type">>, <<"system_name">>,
       <<"system_type">>, <<"manufacturer">>, <<"model_name">>,
       <<"omniclass_title">>, <<"type_name">>, <<"family_name">> >>

categoryField == <<"component_type">>

(***************************************************************************)
(* JavaScript values and strings.                                          *)
(***************************************************************************)
Str(s) == [ty |-> "str", s |-> s, n |-> 0]
Num(k) == [ty |-> "num", s |-> <<>>, n |-> k]
Null == [ty |-> "null", s |-> <<>>, n |-> 0]
Undefined == [ty |-> "undefined", s |-> <<>>, n |-> 0]

Bool(b) == [ty |-> "bool", s |-> <<>>, n |-> IF b THEN 1 ELSE 0]

Truthy(v) == \/ v.ty = "str" /\ v.s # <<>>
             \/ v.ty \in {"num", "bool"} /\ v.n # 0

\* v ?? w
Nullish(v) == v.ty \in {"null", "undefined"}

\* v || w
OrElse(v, w) == IF Truthy(v) THEN v ELSE w

Whitespace == {" "}

lowerCase(c) ==
    CASE c = "D" -> "d"
      [] c = "Z" -> "z"
      [] c = "Area" -> "area"
      [] c = "Volume" -> "volume"
      [] OTHER -> c

toLowerCase(s) == [i \in 1..Len(s) |-> lowerCase(s[i])]

RECURSIVE trimStart(_)
trimStart(s) ==
    IF s # <<>> /\ Head(s) \in Whitespace THEN trimStart(Tail(s)) ELSE s

RECURSIVE trimEnd(_)
trimEnd(s) ==
    IF s # <<>> /\ s[Len(s)] \in Whitespace
        THEN trimEnd(SubSeq(s, 1, Len(s) - 1))
        ELSE s

trim(s) == trimEnd(trimStart(s))

\* String(v) for the values the model holds.
String(v) ==
    CASE v.ty = "str" -> v.s
      [] v.ty = "num" -> <<ToString(v.n)>>
      [] v.ty = "bool" -> IF v.n = 1 THEN <<"true">> ELSE <<"false">>
      [] v.ty = "null" -> <<"null">>
      [] OTHER -> <<"undefined">>

\* norm(s): String(s || "").trim()
norm(v) == trim(String(OrElse(v, Str(<<>>))))

RECURSIVE SelectNonEmpty(_)
SelectNonEmpty(ss) ==
    IF ss = <<>> THEN <<>>
    ELSE IF Head(ss) # <<>> THEN <<Head(ss)>> \o SelectNonEmpty(Tail(ss))
    ELSE SelectNonEmpty(Tail(ss))

\* stripEmpty(arr): arr.map(norm).filter(Boolean)
stripEmpty(vals) == SelectNonEmpty([i \in 1..Len(vals) |-> norm(vals[i])])

Min(a, b) == IF a <= b THEN a ELSE b

\* arr.slice(0, k)
Take(s, k) == SubSeq(s, 1, Min(k, Len(s)))

RECURSIVE Flatten(_)
Flatten(ss) == IF ss = <<>> THEN <<>> ELSE Head(ss) \o Flatten(Tail(ss))

Range(s) == {s[i] : i \in 1..Len(s)}

NoDuplicates(s) == \A i, j \in 1..Len(s) : s[i] = s[j] => i = j

\* All strings over an alphabet up to a length.
StringsUpTo(alphabet, k) == UNION {[1..m -> alphabet] : m \in 0..k}

(***************************************************************************)
(* The store: rows of the elements table and the statements run on it.     *)
(***************************************************************************)
TextColumns == {"urn", "component_type", "level_number", "type_name"}

\* A row's column; the columns the model's rows do not carry are NULL.
Column(row, col) ==
    IF Len(col) = 1 /\ col[1] \in TextColumns THEN row[col[1]] ELSE Null

\* Conditions of a WHERE clause.
CondEq(col) == [op |-> "eq", col |-> col, ids |-> <<>>]
CondIn(ids) == [op |-> "in", col |-> <<"id">>, ids |-> ids]
CondNotNull(col) == [op |-> "notnull", col |-> col, ids |-> <<>>]
CondNonEmpty(col) == [op |-> "nonempty", col |-> col, ids |-> <<>>]

RECURSIVE joinComma(_)
joinComma(ids) ==
    IF ids = <<>> THEN <<>>
    ELSE IF Len(ids) = 1 THEN <<ToString(ids[1])>>
    ELSE <<ToString(ids[1]), ",">> \o joinComma(Tail(ids))

\* The SQL text of one condition.
CondText(c) ==
    CASE c.op = "eq" -> c.col \o <<" = ", "?">>
      [] c.op = "in" -> <<"id IN (">> \o joinComma(c.ids) \o <<")">>
      [] c.op = "notnull" -> c.col \o <<" IS NOT NULL">>
      [] OTHER -> c.col \o <<" != ''">>

\* whereClauses.join(" AND ")
RECURSIVE joinAnd(_)
joinAnd(texts) ==
    IF texts = <<>> THEN <<>>
    ELSE IF Len(texts) = 1 THEN texts[1]
    ELSE texts[1] \o <<" AND ">> \o joinAnd(Tail(texts))

WhereText(conds) == joinAnd([i \in 1..Len(conds) |-> CondText(conds[i])])

Placeholders(text) == Len(SelectSeq(text, LAMBDA c : c = "?"))

\* SQL comparison of a column with a bound text value: NULL equals nothing.
SqlEq(colval, arg) == colval.ty = "str" /\ arg.ty = "str" /\ colval.s = arg.s

\* Whether row number i satisfies the conditions, the placeholders bound to
\* args in order.
RECURSIVE EvalConds(_, _, _, _)
EvalConds(row, i, conds, args) ==
    IF conds = <<>> THEN TRUE
    ELSE LET c == Head(conds) IN
         CASE c.op = "eq" ->
                /\ args # <<>>
                /\ SqlEq(Column(row, c.col), Head(args))
                /\ EvalConds(row, i, Tail(conds), Tail(args))
           [] c.op = "in" ->
                /\ i \in Range(c.ids)
                /\ EvalConds(row, i, Tail(conds), args)
           [] c.op = "notnull" ->
                /\ Column(row, c.col).ty # "null"
                /\ EvalConds(row, i, Tail(conds), args)
           [] OTHER ->
                /\ Column(row, c.col).ty = "str"
                /\ Column(row, c.col).s # <<>>
                /\ EvalConds(row, i, Tail(conds), args)

\* The ids of the rows a WHERE clause selects, in rowid order.
RECURSIVE SelectFrom(_, _, _, _)
SelectFrom(rows, i, conds, args) ==
    IF i > Len(rows) THEN <<>>
    ELSE (IF EvalConds(rows[i], i, conds, args) THEN <<i>> ELSE <<>>)
            \o SelectFrom(rows, i + 1, conds, args)

SelectIds(rows, conds, args) == SelectFrom(rows, 1, conds, args)

\* SELECT DISTINCT: the first occurrence of each value, in scan order.
RECURSIVE Distinct(_)
Distinct(vals) ==
    IF vals = <<>> THEN <<>>
    ELSE LET rest == Distinct(SubSeq(vals, 1, Len(vals) - 1))
             last == vals[Len(vals)]
         IN IF last \in Range(rest) THEN rest ELSE rest \o <<last>>

\* One executed statement as the log keeps it.
StoreQuery(sql, args) == [ev |-> "store", sql |-> sql, args |-> args]
Event(name) == [ev |-> name, sql |-> <<>>, args |-> <<>>]

(***************************************************************************)
(* Rows and property blobs.                                                *)
(***************************************************************************)
\* props_flat as stored: SQL NULL, '', text that is not JSON, the JSON text
\* "null", or a JSON object with the given keys.
Blob(kind, keys) == [kind |-> kind, keys |-> keys]

Row(urn, ct, lvl, tn, pf) ==
    [urn |-> Str(urn), component_type |-> ct, level_number |-> lvl,
     type_name |-> tn, props_flat |-> pf]

\* /area/i.test(k), /volume/i.test(k)
testArea(k) == \E i \in 1..Len(k) : lowerCase(k[i]) = "area"
testVolume(k) == \E i \in 1..Len(k) : lowerCase(k[i]) = "volume"

\* JSON.parse(d.props_flat) followed by Object.keys(pf) throws: a SyntaxError
\* for text that is not JSON, a TypeError for the JSON value null.
parseThrows(pf) == pf.kind \in {"invalid", "json_null"}

\* if (!d.props_flat) continue
blobSkipped(pf) == pf.kind \in {"sql_null", "empty"}

ColumnValues(rows, ids, col) == [j \in 1..Len(ids) |-> Column(rows[ids[j]], col)]

(***************************************************************************)
(* getMeta (both variants).                                                *)
(***************************************************************************)
MetaConds(col) == <<CondEq(<<"urn">>), CondNotNull(col), CondNonEmpty(col)>>

categoriesSql ==
    <<"SELECT DISTINCT ">> \o categoryField \o <<" FROM elements WHERE ">>
        \o WhereText(MetaConds(categoryField))

sampleSql(v, k) ==
    <<"SELECT DISTINCT ">> \o k \o <<" FROM elements WHERE ">>
        \o WhereText(MetaConds(k))
        \o (IF v = "two_stage" THEN <<" LIMIT 15">> ELSE <<>>)

propsSql(v) ==
    <<"SELECT props_flat FROM elements WHERE ">>
        \o WhereText(<<CondEq(<<"urn">>)>>)
        \o (IF v = "two_stage" THEN <<" LIMIT 50">> ELSE <<>>)

\* The rows of SELECT DISTINCT col ... WHERE urn = ? AND col IS NOT NULL AND col != ''
distinctColumn(rows, urn, col) ==
    Distinct(ColumnValues(rows, SelectIds(rows, MetaConds(col), <<urn>>), col))

\* const categories = stripEmpty(compRows.map((r) => r.component_type))
categoriesOf(rows, urn) == stripEmpty(distinctColumn(rows, urn, categoryField))

samplesOf(v, rows, urn, k) ==
    LET found == distinctColumn(rows, urn, k)
    IN stripEmpty(IF v = "two_stage" THEN Take(found, SAMPLE_LIMIT) ELSE found)

\* The blobs the key scan reads.
docsOf(v, rows, urn) ==
    LET ids == SelectIds(rows, <<CondEq(<<"urn">>)>>, <<urn>>)
        blobs == [j \in 1..Len(ids) |-> rows[ids[j]].props_flat]
    IN IF v = "two_stage" THEN Take(blobs, PROPS_SCAN_LIMIT) ELSE blobs

keysMatching(docs, area) ==
    LET keysOf(d) ==
            IF blobSkipped(d) THEN <<>>
            ELSE SelectSeq(d.keys, LAMBDA k : IF area THEN testArea(k) ELSE testVolume(k))
    IN Distinct(Flatten([j \in 1..Len(docs) |-> keysOf(docs[j])]))

NoMeta ==
    [categoryField |-> <<>>, categories |-> <<>>,
     paramSamples |-> [j \in 1..Len(SAMPLE_KEYS) |-> <<>>],
     areaKeys |-> <<>>, volumeKeys |-> <<>>]

\* The statements getMeta runs, in order; all of them run before the key scan.
metaQueries(v, urn) ==
    <<StoreQuery(categoriesSql, <<urn>>)>>
        \o [j \in 1..Len(SAMPLE_KEYS) |-> StoreQuery(sampleSql(v, SAMPLE_KEYS[j]), <<urn>>)]
        \o <<StoreQuery(propsSql(v), <<urn>>)>>

\* getMeta(db, urn): threw when the key scan meets a blob it cannot parse.
getMeta(v, rows, urn) ==
    LET docs == docsOf(v, rows, urn)
        threw == \E j \in 1..Len(docs) : ~blobSkipped(docs[j]) /\ parseThrows(docs[j])
        areaKeys == keysMatching(docs, TRUE)
    IN [threw |-> threw,
        queries |-> metaQueries(v, urn),
        meta |-> IF threw THEN NoMeta
                 ELSE [categoryField |-> categoryField,
                       categories |-> categoriesOf(rows, urn),
                       paramSamples |->
                           [j \in 1..Len(SAMPLE_KEYS) |-> samplesOf(v, rows, urn, SAMPLE_KEYS[j])],
                       areaKeys |-> IF v = "two_stage" THEN Take(areaKeys, AREA_KEYS_CAP)
                                    ELSE areaKeys,
                       volumeKeys |-> IF v = "two_stage" THEN <<>>
                                      ELSE keysMatching(docs, FALSE)]]

(***************************************************************************)
(* Plans: what the reasoning service returns and what the route builds.    *)
(***************************************************************************)
\* Step 1 answer of the two-stage variant.
Plan1(intent, task, cat, limit) ==
    [intent |-> intent, task |-> task, category |-> cat, limit |-> limit]

\* Step 2 answer of the two-stage variant.
Plan2(uss, sq, topK, fp, fv, tp, pk, limit) ==
    [useSemanticSearch |-> uss, semanticQuery |-> sq, topK |-> topK,
     filterParam |-> fp, filterValue |-> fv, targetParam |-> tp,
     propsFlatKey |-> pk, limit |-> limit]

\* The single answer of the unified variant.
Analysis(intent, task, cat, fp, fv, tp, pk) ==
    [intent |-> intent, task |-> task, category |-> cat, filterParam |-> fp,
     filterValue |-> fv, targetParam |-> tp, propsFlatKey |-> pk]

NoPlan1 == Plan1(Undefined, Undefined, Undefined, Undefined)
NoPlan2 == Plan2(Undefined, Undefined, Undefined, Undefined, Undefined,
                 Undefined, Undefined, Undefined)
NoAnalysis == Analysis(Undefined, Undefined, Undefined, Undefined, Undefined,
                       Undefined, Undefined)

NoPlan ==
    [urn |-> Undefined, intent |-> Undefined, task |-> Undefined,
     category |-> Undefined, limit |-> Undefined, filterParam |-> Undefined,
     filterValue |-> Undefined, targetParam |-> Undefined,
     propsFlatKey |-> Undefined, useSemanticSearch |-> Undefined,
     semanticQuery |-> Undefined, topK |-> Undefined]

\* ALLOWED_PARAMS.has(v)
allowed(v) == v.ty = "str" /\ v.s \in ALLOWED_PARAMS

\* let category = plan1.category ? norm(plan1.category) : null, then the
\* backfill from the heuristic hint.
\* A category fix that takes the hint whenever there is one.
resolveCategoryHintFirst(p1, hint, categories) ==
    IF Truthy(hint) THEN hint
    ELSE IF Truthy(p1.category) THEN Str(norm(p1.category)) ELSE Null

resolveCategory(p1, hint, categories) ==
    LET c == IF Truthy(p1.category) THEN Str(norm(p1.category)) ELSE Null
    IN IF ~Truthy(c) /\ Truthy(hint) /\ String(hint) \in Range(categories)
       THEN hint
       ELSE c

buildQueryPlan(p1, p2, urn, cat) ==
    [urn |-> urn,
     intent |-> Str(<<"bim">>),
     task |-> OrElse(p1.task, Str(<<"count">>)),
     category |-> cat,
     limit |-> OrElse(p2.limit, OrElse(p1.limit, Num(DEFAULT_LIMIT))),
     filterParam |-> OrElse(p2.filterParam, Null),
     filterValue |-> IF Nullish(p2.filterValue) THEN Null ELSE p2.filterValue,
     targetParam |-> OrElse(p2.targetParam, Null),
     propsFlatKey |-> OrElse(p2.propsFlatKey, Null),
     useSemanticSearch |-> OrElse(p2.useSemanticSearch, Bool(FALSE)),
     semanticQuery |-> OrElse(p2.semanticQuery, Null),
     topK |-> OrElse(p2.topK, Num(DEFAULT_TOP_K))]

validatePlanParamsUnchecked(p) == p

validatePlanParams(p) ==
    [p EXCEPT
        !.filterParam = IF Truthy(p.filterParam) /\ ~allowed(p.filterParam)
                        THEN Null ELSE p.filterParam,
        !.targetParam = IF Truthy(p.targetParam) /\ ~allowed(p.targetParam)
                        THEN Null ELSE p.targetParam]

\* The first element of a sequence, as a sequence of at most one element
\* (Array.prototype.find returns the first match or undefined).
first(hits) == IF hits = <<>> THEN <<>> ELSE <<hits[1]>>

resolveAgainstExactOnly(raw, cats) ==
    IF ~Truthy(raw) THEN Null
    ELSE LET exact == first(SelectSeq(cats, LAMBDA c : c = norm(raw)))
         IN IF exact # <<>> /\ exact[1] # <<>> THEN Str(exact[1]) ELSE Null

\* The category part of validateAndBuildPlan.
resolveAgainst(raw, cats) ==
    IF ~Truthy(raw) THEN Null
    ELSE LET normalizedCategory == norm(raw)
             exactMatch == first(SelectSeq(cats, LAMBDA c : c = normalizedCategory))
             caseMatch == first(SelectSeq(cats, LAMBDA c :
                              toLowerCase(c) = toLowerCase(normalizedCategory)))
         IN IF exactMatch # <<>> /\ exactMatch[1] # <<>> THEN Str(exactMatch[1])
            ELSE IF caseMatch # <<>> /\ caseMatch[1] # <<>> THEN Str(caseMatch[1])
            ELSE Null

validateAndBuildPlan(a, urn, availableCategories) ==
    LET filterParam == OrElse(a.filterParam, Null)
        targetParam == OrElse(a.targetParam, Null)
    IN [urn |-> urn,
        intent |-> OrElse(a.intent, Str(<<"bim">>)),
        task |-> OrElse(a.task, Str(<<"count">>)),
        category |-> resolveAgainst(a.category, availableCategories),
        limit |-> Undefined,
        filterParam |-> IF Truthy(filterParam) /\ ~allowed(filterParam)
                        THEN Null ELSE filterParam,
        filterValue |-> IF Nullish(a.filterValue) THEN Null ELSE a.filterValue,
        targetParam |-> IF Truthy(targetParam) /\ ~allowed(targetParam)
                        THEN Null ELSE targetParam,
        propsFlatKey |-> OrElse(a.propsFlatKey, Null),
        useSemanticSearch |-> Undefined,
        semanticQuery |-> Undefined,
        topK |-> Undefined]

(***************************************************************************)
(* runQuery: candidate restriction, filter compilation, task handlers.     *)
(***************************************************************************)
\* candidateIds: null, or the array semanticSearch returned.
NoCandidates == [isNull |-> TRUE, ids |-> <<>>]
Candidates(ids) == [isNull |-> FALSE, ids |-> ids]

\* if (plan.useSemanticSearch && plan.semanticQuery)
wantsSemantic(p) == Truthy(p.useSemanticSearch) /\ Truthy(p.semanticQuery)

SemanticOutcomes == {"embed_threw", "no_embedding", "search_threw", "found"}
SemanticFailures == {"embed_threw", "no_embedding", "search_threw"}

candidatesAfterLeaky(outcome, ids) ==
    IF outcome \in {"found", "search_threw"} THEN Candidates(ids) ELSE NoCandidates

\* The try block of runQuery: candidateIds is assigned only when
\* generateEmbedding returned an embedding and semanticSearch returned.
candidatesAfter(outcome, ids) ==
    IF outcome = "found" THEN Candidates(ids) ELSE NoCandidates

\* The events of the try block.
semanticEvents(outcome) ==
    IF outcome \in {"embed_threw", "no_embedding"} THEN <<Event("embed")>>
    ELSE <<Event("embed"), Event("semantic_search")>>

\* plan.filterParam && plan.filterValue !== undefined &&
\* plan.filterValue !== null && String(plan.filterValue).trim() !== ""
hasAttributeFilter(p) ==
    /\ Truthy(p.filterParam)
    /\ ~Nullish(p.filterValue)
    /\ trim(String(p.filterValue)) # <<>>

queryCategory(p) == IF Truthy(p.category) THEN Str(norm(p.category)) ELSE Null

whereClausesNoScope(m, p, cand) ==
    (IF ~cand.isNull /\ Len(cand.ids) > 0 THEN <<CondIn(cand.ids)>> ELSE <<>>)
    \o (IF Truthy(queryCategory(p)) THEN <<CondEq(m.categoryField)>> ELSE <<>>)
    \o (IF hasAttributeFilter(p) THEN <<CondEq(String(p.filterParam))>> ELSE <<>>)

\* The conditions of the compiled filter, in order.
whereClauses(m, p, cand) ==
    <<CondEq(<<"urn">>)>>
    \o (IF ~cand.isNull /\ Len(cand.ids) > 0 THEN <<CondIn(cand.ids)>> ELSE <<>>)
    \o (IF Truthy(queryCategory(p)) THEN <<CondEq(m.categoryField)>> ELSE <<>>)
    \o (IF hasAttributeFilter(p) THEN <<CondEq(String(p.filterParam))>> ELSE <<>>)

\* Bound parameters with the attribute value pushed before the category.
whereParamsValueFirst(p) ==
    <<p.urn>>
    \o (IF hasAttributeFilter(p) THEN <<p.filterValue>> ELSE <<>>)
    \o (IF Truthy(queryCategory(p)) THEN <<queryCategory(p)>> ELSE <<>>)

\* The bound parameters of the compiled filter, in order.
whereParams(p) ==
    <<p.urn>>
    \o (IF Truthy(queryCategory(p)) THEN <<queryCategory(p)>> ELSE <<>>)
    \o (IF hasAttributeFilter(p) THEN <<p.filterValue>> ELSE <<>>)

NotCompiled == [where |-> <<>>, params |-> <<>>]

\* const limit = Number.isFinite(plan.limit) ? plan.limit : DEFAULT_LIMIT
queryLimit(p) == IF p.limit.ty = "num" THEN p.limit ELSE Num(DEFAULT_LIMIT)

\* A statement: the text before the filter, the filter's conditions, the
\* text after the filter, and the arguments it is run with.
Statement(head, conds, tail, args) ==
    [head |-> head, conds |-> conds, tail |-> tail, args |-> args]

SqlText(st) == st.head \o WhereText(st.conds) \o st.tail

NoStatement == Statement(<<>>, <<>>, <<>>, <<>>)

\* The arguments bound to the placeholders of the filter: those after the
\* placeholders of the head.
filterArgs(st) ==
    SubSeq(st.args, Placeholders(st.head) + 1,
           Placeholders(st.head) + Placeholders(WhereText(st.conds)))

\* The ids of the rows a statement selects, before DISTINCT, GROUP BY, LIMIT.
statementIds(rows, st) == SelectIds(rows, st.conds, filterArgs(st))

\* LIMIT ?: bound to the last argument; a negative limit is no limit.
applyLimit(st, items) ==
    IF Placeholders(st.tail) = 0 THEN items
    ELSE LET l == st.args[Len(st.args)]
         IN IF l.ty = "num" /\ l.n >= 0 THEN Take(items, l.n) ELSE items

countStatement(conds, params) ==
    Statement(<<"SELECT COUNT(*) as count FROM elements WHERE ">>, conds, <<>>, params)

distinctStatement(v, conds, params, field, limit) ==
    Statement(<<"SELECT DISTINCT ">> \o String(field) \o <<" FROM elements WHERE ">>,
              conds \o <<CondNotNull(String(field))>>,
              IF v = "two_stage" THEN <<" LIMIT ", "?">> ELSE <<>>,
              IF v = "two_stage" THEN params \o <<limit>> ELSE params)

groupCountStatement(v, conds, params, field, limit) ==
    Statement(<<"SELECT ">> \o String(field) \o <<", COUNT(*) as count FROM elements WHERE ">>,
              conds \o <<CondNotNull(String(field))>>,
              <<" GROUP BY ">> \o String(field) \o <<" ORDER BY count DESC">>
                  \o (IF v = "two_stage" THEN <<" LIMIT ", "?">> ELSE <<>>),
              IF v = "two_stage" THEN params \o <<limit>> ELSE params)

\* `$."${propsFlatKey}"`
jsonPath(key) == Str(<<"$.\"">> \o String(key) \o <<"\"">>)

sumStatement(raw, conds, params, key) ==
    Statement(<<"SELECT json_extract(props_flat, ", "?", ") as ", raw,
                ", name, type_name, level_number FROM elements WHERE ">>,
              conds, <<>>, <<jsonPath(key)>> \o params)

listStatement(v, conds, params, limit) ==
    Statement(<<"SELECT urn, guid, dbId, name, component_type, type_name, family_name, level_number, room_name, room_type, system_type, system_name, manufacturer, model_name, omniclass_title, omniclass_number FROM elements WHERE ">>,
              conds,
              IF v = "two_stage" THEN <<" LIMIT ", "?">> ELSE <<>>,
              IF v = "two_stage" THEN params \o <<limit>> ELSE params)

(***************************************************************************)
(* Task handlers.                                                          *)
(***************************************************************************)
NoResult ==
    [kind |-> "none", count |-> 0, field |-> <<>>, values |-> <<>>,
     rows |-> <<>>, docs |-> <<>>, propsFlatKey |-> <<>>, total |-> 0, n |-> 0]

\* What a handler does up to its return or its first await.
Threw(msg) == [threw |-> TRUE, error |-> msg, st |-> NoStatement,
               awaitsNumeric |-> FALSE, result |-> NoResult]
Ran(st, r) == [threw |-> FALSE, error |-> "", st |-> st,
               awaitsNumeric |-> FALSE, result |-> r]
Awaits(st, r) == [threw |-> FALSE, error |-> "", st |-> st,
                  awaitsNumeric |-> TRUE, result |-> r]

\* A count that ignores the filter.
handleCountTaskUnfiltered(rows, conds, params) ==
    LET st == countStatement(conds, params)
    IN Ran(st, [NoResult EXCEPT !.kind = "count", !.count = Len(rows)])

handleCountTask(rows, conds, params) ==
    LET st == countStatement(conds, params)
    IN Ran(st, [NoResult EXCEPT !.kind = "count",
                                !.count = Len(statementIds(rows, st))])

\* rows.map((r) => norm(r[field])).filter(Boolean)
distinctValues(rows, st, field) ==
    stripEmpty(applyLimit(st, Distinct(ColumnValues(rows, statementIds(rows, st), field))))

handleDistinctTaskUnguarded(v, rows, conds, params, field, limit) ==
    LET st == distinctStatement(v, conds, params, field, limit)
    IN Ran(st, [NoResult EXCEPT !.kind = "distinct",
                                !.field = String(field),
                                !.values = distinctValues(rows, st, String(field))])

handleDistinctTask(v, rows, conds, params, field, limit) ==
    IF ~Truthy(field) THEN Threw("distinct requires targetParam")
    ELSE LET st == distinctStatement(v, conds, params, field, limit)
         IN Ran(st, [NoResult EXCEPT !.kind = "distinct",
                                     !.field = String(field),
                                     !.values = distinctValues(rows, st, String(field))])

\* The groups of GROUP BY field with their counts, in first-occurrence order.
groupsOf(rows, ids, field) ==
    LET vals == ColumnValues(rows, ids, field)
        keys == Distinct(vals)
    IN [j \in 1..Len(keys) |->
           [value |-> keys[j],
            count |-> Cardinality({i \in 1..Len(vals) : vals[i] = keys[j]})]]

\* ORDER BY count DESC; equal counts keep the scan order (the store's own
\* order is unspecified).
RECURSIVE orderByCountDesc(_)
orderByCountDesc(groups) ==
    IF groups = <<>> THEN <<>>
    ELSE LET best == CHOOSE i \in 1..Len(groups) :
                        /\ \A j \in 1..Len(groups) : groups[j].count <= groups[i].count
                        /\ \A j \in 1..(i - 1) : groups[j].count < groups[i].count
         IN <<groups[best]>>
                \o orderByCountDesc(SubSeq(groups, 1, best - 1)
                                    \o SubSeq(groups, best + 1, Len(groups)))

handleGroupCountTask(v, rows, conds, params, field, limit) ==
    IF ~Truthy(field) THEN Threw("group_count requires targetParam")
    ELSE LET st == groupCountStatement(v, conds, params, field, limit)
             groups == orderByCountDesc(groupsOf(rows, statementIds(rows, st), String(field)))
         IN Ran(st, [NoResult EXCEPT !.kind = "group_count",
                                     !.field = String(field),
                                     !.rows = applyLimit(st, groups)])

handleSumAreaTask(rows, conds, params, p) ==
    IF ~Truthy(p.propsFlatKey) THEN Threw("sum_area requires propsFlatKey")
    ELSE LET st == sumStatement("area_raw", conds, params, p.propsFlatKey)
         IN Awaits(st, [NoResult EXCEPT !.kind = "sum_area",
                                        !.propsFlatKey = String(p.propsFlatKey),
                                        !.docs = statementIds(rows, st)])

handleSumVolumeTask(rows, conds, params, p) ==
    LET propsFlatKey == OrElse(p.propsFlatKey, Str(<<"Dimensions.", "Volume">>))
        st == sumStatement("volume_raw", conds, params, propsFlatKey)
    IN Awaits(st, [NoResult EXCEPT !.kind = "sum_volume",
                                   !.propsFlatKey = String(propsFlatKey),
                                   !.docs = statementIds(rows, st)])

handleListTask(v, rows, conds, params, limit) ==
    LET st == listStatement(v, conds, params, limit)
    IN Ran(st, [NoResult EXCEPT !.kind = "list",
                                !.docs = applyLimit(st, statementIds(rows, st))])

\* switch (plan.task)
dispatch(v, rows, p, conds, params) ==
    LET task == String(p.task)
        limit == queryLimit(p)
    IN CASE task = <<"count">> -> handleCountTask(rows, conds, params)
         [] task = <<"distinct">> ->
                handleDistinctTask(v, rows, conds, params, p.targetParam, limit)
         [] task = <<"group_count">> ->
                handleGroupCountTask(v, rows, conds, params, p.targetParam, limit)
         [] task = <<"sum_area">> -> handleSumAreaTask(rows, conds, params, p)
         [] task = <<"sum_volume">> /\ v = "unified" ->
                handleSumVolumeTask(rows, conds, params, p)
         [] OTHER -> handleListTask(v, rows, conds, params, limit)

\* The numeric-extraction answer: {total_area | total_volume, count}.
Numeric(total, count) == [total |-> total, count |-> count]
NoNumeric == Numeric(Undefined, Undefined)

\* total_area: areaResult.total_area || 0, n: areaResult.count || 0
sumResult(pending, a) ==
    [pending EXCEPT !.docs = <<>>,
                    !.total = OrElse(a.total, Num(0)).n,
                    !.n = OrElse(a.count, Num(0)).n]

(***************************************************************************)
(* The route handler, router.post("/"), as a state machine.                *)
(***************************************************************************)
Pending == [status |-> "pending", error |-> "", answer |-> FALSE, hits |-> "none"]
Json400(msg) == [status |-> "400", error |-> msg, answer |-> FALSE, hits |-> "none"]
JsonOk(hits) == [status |-> "200", error |-> "", answer |-> TRUE, hits |-> hits]
NextErr(msg) == [status |-> "error", error |-> msg, answer |-> FALSE, hits |-> "none"]

Request(urn, question) == [urn |-> urn, question |-> question]

\* A route that never takes the general branch.
isGeneralIgnored == FALSE

\* plan1.intent === "general" / analysis.intent === "general"
isGeneral == IF variant = "two_stage" THEN plan1.intent = Str(<<"general">>)
             ELSE analysis.intent = Str(<<"general">>)

InitWith(dbs, reqs) ==
    /\ variant \in Variants
    /\ db \in dbs
    /\ req \in reqs
    /\ pc = "start"
    /\ meta = NoMeta
    /\ hintCategory = Null
    /\ plan1 = NoPlan1
    /\ plan2 = NoPlan2
    /\ analysis = NoAnalysis
    /\ category = Null
    /\ plan = NoPlan
    /\ semantic = "none"
    /\ candidateIds = NoCandidates
    /\ compiled = NotCompiled
    /\ stmt = NoStatement
    /\ numeric = NoNumeric
    /\ result = NoResult
    /\ res = Pending
    /\ log = <<>>

\* A route that does not check req.body.
ReceiveUnchecked ==
    /\ pc = "start"
    /\ res' = res
    /\ pc' = "get_meta"
    /\ log' = log \o <<Event("getDb")>>
    /\ UNCHANGED <<variant, db, req, meta, hintCategory, plan1, plan2, analysis,
                   category, plan, semantic, candidateIds, compiled, stmt,
                   numeric, result>>

\* The checks on req.body and getDb().
Receive ==
    /\ pc = "start"
    /\ IF ~Truthy(req.urn)
         THEN /\ res' = Json400("Missing urn")
              /\ pc' = "done"
              /\ log' = log \o <<Event("respond")>>
         ELSE IF ~Truthy(req.question)
         THEN /\ res' = Json400("Missing question")
              /\ pc' = "done"
              /\ log' = log \o <<Event("respond")>>
         ELSE /\ res' = res
              /\ pc' = "get_meta"
              /\ log' = log \o <<Event("getDb")>>
    /\ UNCHANGED <<variant, db, req, meta, hintCategory, plan1, plan2, analysis,
                   category, plan, semantic, candidateIds, compiled, stmt,
                   numeric, result>>

\* const meta = await getMeta(db, urn); a throw goes to catch, next(err).
GetMeta ==
    /\ pc = "get_meta"
    /\ LET m == getMeta(variant, db, req.urn)
       IN IF m.threw
            THEN /\ res' = NextErr("getMeta")
                 /\ pc' = "done"
                 /\ meta' = meta
                 /\ log' = log \o m.queries \o <<Event("next")>>
            ELSE /\ res' = res
                 /\ pc' = "meta_ready"
                 /\ meta' = m.meta
                 /\ log' = log \o m.queries
    /\ UNCHANGED <<variant, db, req, hintCategory, plan1, plan2, analysis,
                   category, plan, semantic, candidateIds, compiled, stmt,
                   numeric, result>>

\* A hint answer: the call threw, or returned {category, confidence}.
Hint(threw, cat, confidence) == [threw |-> threw, category |-> cat, confidence |-> confidence]

\* detectHintCategory: null without a call when there are no categories; a
\* failed call is caught, reported on the console (hint_failed) and gives
\* null.
hintOf(a) ==
    IF ~a.threw /\ Truthy(a.category) /\ a.confidence # "low" THEN a.category ELSE Null

DetectHint(answers) ==
    /\ pc = "meta_ready"
    /\ variant = "two_stage"
    /\ IF Len(meta.categories) = 0
         THEN /\ hintCategory' = Null
              /\ log' = log
         ELSE \E a \in answers :
                /\ hintCategory' = hintOf(a)
                /\ log' = log \o <<Event("llm_json")>>
                              \o (IF a.threw THEN <<Event("hint_failed")>> ELSE <<>>)
    /\ pc' = "hinted"
    /\ UNCHANGED <<variant, db, req, meta, plan1, plan2, analysis, category,
                   plan, semantic, candidateIds, compiled, stmt, numeric,
                   result, res>>

\* const plan1 = await geminiJson(plan1Prompt)
Intent(answers) ==
    /\ pc = "hinted"
    /\ \E a \in answers : plan1' = a
    /\ pc' = "intent_resolved"
    /\ log' = log \o <<Event("llm_json")>>
    /\ UNCHANGED <<variant, db, req, meta, hintCategory, plan2, analysis,
                   category, plan, semantic, candidateIds, compiled, stmt,
                   numeric, result, res>>

\* const analysis = await analyzeQuestion(question, meta)
Analyze(answers) ==
    /\ pc = "meta_ready"
    /\ variant = "unified"
    /\ \E a \in answers : analysis' = a
    /\ pc' = "intent_resolved"
    /\ log' = log \o <<Event("llm_json")>>
    /\ UNCHANGED <<variant, db, req, meta, hintCategory, plan1, plan2,
                   category, plan, semantic, candidateIds, compiled, stmt,
                   numeric, result, res>>

\* The general branch: one geminiText call, res.json({answer}).
General ==
    /\ pc = "intent_resolved"
    /\ isGeneral
    /\ res' = JsonOk("none")
    /\ pc' = "done"
    /\ log' = log \o <<Event("llm_text"), Event("respond")>>
    /\ UNCHANGED <<variant, db, req, meta, hintCategory, plan1, plan2,
                   analysis, category, plan, semantic, candidateIds, compiled,
                   stmt, numeric, result>>

\* Two-stage steps 3 and 4: the category fix, the parameter call,
\* buildQueryPlan and validatePlanParams.
Params(answers) ==
    /\ pc = "intent_resolved"
    /\ variant = "two_stage"
    /\ ~isGeneral
    /\ \E a \in answers :
         LET c == resolveCategory(plan1, hintCategory, meta.categories)
         IN /\ category' = c
            /\ plan2' = a
            /\ plan' = validatePlanParams(buildQueryPlan(plan1, a, req.urn, c))
    /\ pc' = "validated"
    /\ log' = log \o <<Event("llm_json")>>
    /\ UNCHANGED <<variant, db, req, meta, hintCategory, plan1, analysis,
                   semantic, candidateIds, compiled, stmt, numeric, result, res>>

\* Unified step 2: validateAndBuildPlan.
Validate ==
    /\ pc = "intent_resolved"
    /\ variant = "unified"
    /\ ~isGeneral
    /\ plan' = validateAndBuildPlan(analysis, req.urn, meta.categories)
    /\ pc' = "validated"
    /\ UNCHANGED <<variant, db, req, meta, hintCategory, plan1, plan2,
                   analysis, category, semantic, candidateIds, compiled, stmt,
                   numeric, result, res, log>>

\* runQuery of the two-stage variant, the semantic-search block.
needsSemantic == variant = "two_stage" /\ wantsSemantic(plan)

SemanticSearch(idLists) ==
    /\ pc = "validated"
    /\ needsSemantic
    /\ \E o \in SemanticOutcomes :
       \E ids \in (IF o = "embed_threw" \/ o = "no_embedding" THEN {<<>>} ELSE idLists) :
         /\ semantic' = o
         /\ candidateIds' = candidatesAfter(o, ids)
         /\ log' = log \o <<Event("runQuery")>> \o semanticEvents(o)
    /\ pc' = "restricted"
    /\ UNCHANGED <<variant, db, req, meta, hintCategory, plan1, plan2,
                   analysis, category, plan, compiled, stmt, numeric, result, res>>

\* A route that compiles the filter before the plan is built.
CompileEarly ==
    /\ pc = "intent_resolved"
    /\ ~isGeneral
    /\ compiled' = [where |-> whereClauses(meta, plan, candidateIds),
                    params |-> whereParams(plan)]
    /\ log' = log \o <<Event("runQuery")>>
    /\ pc' = "compiled"
    /\ UNCHANGED <<variant, db, req, meta, hintCategory, plan1, plan2,
                   analysis, category, plan, semantic, candidateIds, stmt,
                   numeric, result, res>>

\* runQuery, "Build WHERE clause".
Compile ==
    /\ pc \in {"restricted", "validated"}
    /\ pc = "validated" => ~needsSemantic
    /\ compiled' = [where |-> whereClauses(meta, plan, candidateIds),
                    params |-> whereParams(plan)]
    /\ log' = IF pc = "validated" THEN log \o <<Event("runQuery")>> ELSE log
    /\ pc' = "compiled"
    /\ UNCHANGED <<variant, db, req, meta, hintCategory, plan1, plan2,
                   analysis, category, plan, semantic, candidateIds, stmt,
                   numeric, result, res>>

\* runQuery, "Dispatch to task handler", up to the handler's return, its
\* throw, or its await of the numeric-extraction call.
Execute ==
    /\ pc = "compiled"
    /\ LET h == dispatch(variant, db, plan, compiled.where, compiled.params)
       IN IF h.threw
            THEN /\ res' = NextErr(h.error)
                 /\ pc' = "done"
                 /\ log' = log \o <<Event("next")>>
                 /\ UNCHANGED <<stmt, result>>
            ELSE /\ res' = res
                 /\ stmt' = h.st
                 /\ result' = h.result
                 /\ pc' = IF h.awaitsNumeric THEN "numeric" ELSE "executed"
                 /\ log' = log \o <<StoreQuery(SqlText(h.st), h.st.args)>>
                               \o (IF h.awaitsNumeric THEN <<Event("llm_json")>> ELSE <<>>)
    /\ UNCHANGED <<variant, db, req, meta, hintCategory, plan1, plan2,
                   analysis, category, plan, semantic, candidateIds, compiled,
                   numeric>>

\* The numeric-extraction answer of handleSumAreaTask / handleSumVolumeTask.
NumericAnswer(answers) ==
    /\ pc = "numeric"
    /\ \E a \in answers :
         /\ numeric' = a
         /\ result' = sumResult(result, a)
    /\ pc' = "executed"
    /\ UNCHANGED <<variant, db, req, meta, hintCategory, plan1, plan2,
                   analysis, category, plan, semantic, candidateIds, compiled,
                   stmt, res, log>>

\* A route that responds with the result without the answer call.
AnswerSkipped ==
    /\ pc = "executed"
    /\ res' = JsonOk(IF result.kind = "list" THEN "list" ELSE "result")
    /\ pc' = "done"
    /\ log' = log \o <<Event("respond")>>
    /\ UNCHANGED <<variant, db, req, meta, hintCategory, plan1, plan2,
                   analysis, category, plan, semantic, candidateIds, compiled,
                   stmt, numeric, result>>

\* The answer call and res.json({answer, hits}).
Answer ==
    /\ pc = "executed"
    /\ res' = JsonOk(IF result.kind = "list" THEN "list" ELSE "result")
    /\ pc' = "done"
    /\ log' = log \o <<Event("llm_text"), Event("respond")>>
    /\ UNCHANGED <<variant, db, req, meta, hintCategory, plan1, plan2,
                   analysis, category, plan, semantic, candidateIds, compiled,
                   stmt, numeric, result>>

\* A mandatory reasoning call rejects: catch (err) { next(err) }.
awaitsReasoning ==
    \/ pc \in {"hinted", "intent_resolved", "numeric", "executed"} /\ variant = "two_stage"
    \/ pc \in {"meta_ready", "numeric", "executed"} /\ variant = "unified"
    \/ pc = "intent_resolved" /\ variant = "unified" /\ isGeneral

ReasoningFails ==
    /\ awaitsReasoning
    /\ res' = NextErr("reasoning service")
    /\ pc' = "done"
    /\ log' = log \o (IF pc = "numeric" THEN <<>>
                      ELSE IF pc = "executed" \/ (pc = "intent_resolved" /\ isGeneral)
                      THEN <<Event("llm_text")>>
                      ELSE <<Event("llm_json")>>)
                  \o <<Event("next")>>
    /\ UNCHANGED <<variant, db, req, meta, hintCategory, plan1, plan2,
                   analysis, category, plan, semantic, candidateIds, compiled,
                   stmt, numeric, result>>

(***************************************************************************)
(* The values the model draws: requests, stores, answers of the reasoning  *)
(* service.                                                                *)
(***************************************************************************)
SeqsUpTo(S, k) == UNION {[1..m -> S] : m \in 0..k}

U1 == <<"urn1">>
U2 == <<"urn2">>

NoBlob == Blob("sql_null", <<>>)
AreaBlob == Blob("object", << <<"Dimensions.", "Area">>, <<"Width">> >>)
VolumeBlob == Blob("object", << <<"Volume">>, <<"area">> >>)

Texts(alphabet) == {Str(t) : t \in StringsUpTo(alphabet, MaxStrLen)}

ValidRequests == {Request(Str(U1), Str(<<"q">>))}

Requests ==
    ValidRequests
    \cup {Request(Undefined, Str(<<"q">>)), Request(Str(<<>>), Str(<<"q">>)),
          Request(Str(U1), Undefined), Request(Str(U1), Str(<<>>))}

\* Metadata discovery: category values with surrounding blanks, blobs of
\* every kind, a second model.
MetaRows ==
    {Row(U1, ct, Null, Null, NoBlob) : ct \in {Null} \cup Texts({"D", " "})}
    \cup {Row(U1, Str(<<"D">>), Str(<<"1">>), Null, b) :
            b \in {AreaBlob, VolumeBlob, Blob("empty", <<>>),
                   Blob("invalid", <<>>), Blob("json_null", <<>>)}}
    \cup {Row(U2, Str(<<"d">>), Str(<<"2">>), Null, VolumeBlob)}

MetaDbs == SeqsUpTo(MetaRows, MaxElems)

InitMeta == InitWith(MetaDbs, ValidRequests)

NextMeta == Receive \/ GetMeta

\* Metadata discovery alone, over many stores.
SpecMeta == InitMeta /\ [][NextMeta]_vars

\* Plan validation: many raw categories and parameter names, over stores
\* whose categories differ by case and by surrounding blanks.
PlanRows ==
    {Row(U1, Str(c), Null, Null, NoBlob) : c \in {<<"D">>, <<"d">>, <<"D", " ">>}}

PlanDbs == SeqsUpTo(PlanRows, MaxElems)

RawCategories == {Undefined, Null} \cup Texts({"D", "d", " "})

RawParams ==
    {Undefined, Null, Str(<<>>), Str(<<"level_number">>), Str(<<"type_name">>),
     Str(<<"component_type">>), Str(<<"urn">>), Str(<<"level_number", " ">>),
     Str(<<"1=1 OR ", "level_number">>)}

RawParamPairs ==
    {<<x, Null>> : x \in RawParams} \cup {<<Undefined, x>> : x \in RawParams}
        \cup {<<x, x>> : x \in RawParams}
        \cup {<<x, Str(<<"type_name">>)>> : x \in RawParams}
        \cup {<<Str(<<"level_number">>), x>> : x \in RawParams}

Bim == Str(<<"bim">>)
Task(name) == Str(<<name>>)

PlanHints ==
    {Hint(FALSE, Null, "high"), Hint(FALSE, Str(<<"D">>), "high"),
     Hint(FALSE, Str(<<"z">>), "medium")}

PlanPlan1s == {Plan1(Bim, Task("count"), c, Undefined) : c \in RawCategories}

PlanPlan2s ==
    {Plan2(Undefined, Undefined, Undefined, pr[1], Str(<<"1">>), pr[2], Undefined, Undefined) :
        pr \in RawParamPairs}

PlanAnalyses ==
    {Analysis(Bim, Task("count"), c, pr[1], Str(<<"1">>), pr[2], Undefined) :
        c \in RawCategories, pr \in RawParamPairs}

InitPlan == InitWith(PlanDbs, ValidRequests)

NextPlan ==
    \/ Receive
    \/ GetMeta
    \/ DetectHint(PlanHints)
    \/ Intent(PlanPlan1s)
    \/ Analyze(PlanAnalyses)
    \/ Params(PlanPlan2s)
    \/ Validate

\* The route up to the validated plan, over many raw plans.
SpecPlan == InitPlan /\ [][NextPlan]_vars

\* The whole route: stores of two models, plans of every task.
SpecRows ==
    {Row(U1, Str(<<"D">>), Str(<<"1">>), Str(<<"D">>), AreaBlob),
     Row(U1, Str(<<"D">>), Str(<<"2">>), Str(<<"D", " ">>), NoBlob),
     Row(U2, Str(<<"D">>), Str(<<"1">>), Str(<<"d">>), AreaBlob)}

SpecDbs == SeqsUpTo(SpecRows, MaxElems)

Tasks == {"count", "distinct", "group_count", "list", "sum_area", "sum_volume"}

SpecCategories == {Null, Str(<<"D">>), Str(<<"z">>), Str(<<" ">>)}

SpecHints == {Hint(TRUE, Null, "high"), Hint(FALSE, Str(<<"D">>), "high")}

SpecPlan1s ==
    {Plan1(Str(<<"general">>), Undefined, Undefined, Undefined)}
    \cup {Plan1(Bim, Task(t), c, Undefined) : t \in Tasks, c \in SpecCategories}
    \cup {Plan1(Undefined, Undefined, Null, Num(1))}

On == Bool(TRUE)
Level == Str(<<"level_number">>)
TypeName == Str(<<"type_name">>)
Evil == Str(<<"1=1 OR ", "level_number">>)
AreaKey == Str(<<"Dimensions.", "Area">>)

SpecPlan2s ==
    {Plan2(Undefined, Undefined, Undefined, Null, Null, Null, Null, Undefined),
     Plan2(Undefined, Undefined, Undefined, Level, Str(<<"1">>), TypeName, AreaKey, Undefined),
     Plan2(Undefined, Undefined, Undefined, Level, Str(<<" ">>), Evil, Null, Num(1)),
     Plan2(Undefined, Undefined, Undefined, Evil, Str(<<"1">>), TypeName, Null, Undefined),
     Plan2(On, Str(<<"q">>), Num(2), Null, Null, Evil, Null, Undefined),
     Plan2(On, Str(<<"q">>), Undefined, Level, Str(<<"2">>), TypeName, AreaKey, Undefined),
     Plan2(On, Str(<<>>), Undefined, Null, Str(<<"1">>), TypeName, Null, Undefined)}

SpecAnalyses ==
    {Analysis(Str(<<"general">>), Undefined, Undefined, Undefined, Undefined, Undefined, Undefined)}
    \cup {Analysis(Bim, Task(t), c, p[1], p[2], p[3], p[4]) :
            t \in Tasks, c \in SpecCategories \cup {Str(<<"d">>)},
            p \in {<<Null, Null, Null, Null>>,
                   <<Level, Str(<<"1">>), TypeName, AreaKey>>,
                   <<Level, Str(<<" ">>), Evil, Null>>,
                   <<Evil, Str(<<"1">>), TypeName, Null>>}}
    \cup {Analysis(Undefined, Undefined, Null, Undefined, Undefined, Undefined, Undefined)}

SpecIdLists == {<<>>, <<1>>, <<2, 1>>}

SpecNumerics == {Numeric(Num(7), Num(2)), Numeric(Undefined, Undefined)}

Init == InitWith(SpecDbs, Requests)

Next ==
    \/ Receive
    \/ GetMeta
    \/ DetectHint(SpecHints)
    \/ Intent(SpecPlan1s)
    \/ Analyze(SpecAnalyses)
    \/ General
    \/ Params(SpecPlan2s)
    \/ Validate
    \/ SemanticSearch(SpecIdLists)
    \/ Compile
    \/ Execute
    \/ NumericAnswer(SpecNumerics)
    \/ Answer
    \/ ReasoningFails

Spec == Init /\ [][Next]_vars

(***************************************************************************)
(* Claims about metadata discovery (SpecMeta).                             *)
(***************************************************************************)
metaReturned == pc \notin {"start", "get_meta"} /\ res.status # "400"

\* Some element of the request's model has a blob that is non-empty and is
\* not a parseable JSON object.
hasMalformedBlob ==
    \E i \in 1..Len(db) :
        /\ db[i].urn = req.urn
        /\ db[i].props_flat.kind \in {"invalid", "json_null"}

\* The store with the malformed blobs left out of the key scan.
withoutMalformedBlobs ==
    [i \in 1..Len(db) |->
        IF db[i].props_flat.kind \in {"invalid", "json_null"}
        THEN [db[i] EXCEPT !.props_flat = NoBlob]
        ELSE db[i]]

\* C6: a malformed property blob on one element does not abort metadata
\* discovery: getMeta still returns the metadata computed from the remaining
\* elements, that element's blob skipped.
C6_MalformedBlobSkipped ==
    (metaReturned /\ hasMalformedBlob) =>
        /\ res.status # "error"
        /\ meta = getMeta(variant, withoutMalformedBlobs, req.urn).meta

\* C7: every value in the categories list getMeta returns is non-empty,
\* equals its trimmed form, and appears in the list at most once.
C7_CategoriesTrimmedUnique ==
    pc = "meta_ready" =>
        /\ \A i \in 1..Len(meta.categories) :
              /\ meta.categories[i] # <<>>
              /\ trim(meta.categories[i]) = meta.categories[i]
        /\ NoDuplicates(meta.categories)

(***************************************************************************)
(* Claims about plan validation (SpecPlan).                                *)
(***************************************************************************)
planBuilt == plan # NoPlan

\* The raw plan the reasoning service returned.
rawFilterParam == IF variant = "two_stage" THEN plan2.filterParam ELSE analysis.filterParam
rawTargetParam == IF variant = "two_stage" THEN plan2.targetParam ELSE analysis.targetParam

inAllowList(v) == v.ty = "str" /\ \E a \in ALLOWED_PARAMS : v.s = a

\* C1: in the plan handed to runQuery, filterParam and targetParam are each
\* null or a member of the ten-name allow-list, and a raw value outside the
\* allow-list has been replaced by null.
C1_ParamsNullOrAllowed ==
    planBuilt =>
        /\ plan.filterParam = Null \/ inAllowList(plan.filterParam)
        /\ plan.targetParam = Null \/ inAllowList(plan.targetParam)
        /\ ~inAllowList(rawFilterParam) => plan.filterParam = Null
        /\ ~inAllowList(rawTargetParam) => plan.targetParam = Null
        /\ inAllowList(rawFilterParam) => plan.filterParam = rawFilterParam
        /\ inAllowList(rawTargetParam) => plan.targetParam = rawTargetParam

\* A raw filterParam that is a non-empty string outside the allow-list, and a
\* raw targetParam inside it, have been validated.
C1_Witness ==
    /\ pc = "validated"
    /\ Truthy(rawFilterParam) /\ ~inAllowList(rawFilterParam)
    /\ inAllowList(rawTargetParam)
    /\ plan.filterParam = Null
    /\ plan.targetParam = rawTargetParam

\* The members of availableCategories equal to the trimmed raw category
\* exactly, and ignoring case.
trimmedRaw == trim(analysis.category.s)
exactMembers == {c \in Range(meta.categories) : c = trimmedRaw}
caseMembers ==
    {c \in Range(meta.categories) :
        Len(c) = Len(trimmedRaw) /\ \A i \in 1..Len(c) : lowerCase(c[i]) = lowerCase(trimmedRaw[i])}

\* C4: validateAndBuildPlan takes the member equal to the trimmed raw category
\* if there is one, else the first member equal to it ignoring case, in that
\* member's casing, else null; a missing raw category gives null.
C4_CategoryResolution ==
    (variant = "unified" /\ planBuilt) =>
        IF analysis.category.ty # "str" \/ analysis.category.s = <<>>
            THEN plan.category = Null
        ELSE IF exactMembers # {}
            THEN plan.category = Str(trimmedRaw)
        ELSE IF caseMembers # {}
            THEN /\ plan.category.ty = "str"
                 /\ plan.category.s \in caseMembers
                 /\ \E i \in 1..Len(meta.categories) :
                       /\ meta.categories[i] = plan.category.s
                       /\ \A j \in 1..(i - 1) : meta.categories[j] \notin caseMembers
        ELSE plan.category = Null

\* Raw "d" with no member "d" but a member "D" has resolved to "D".
C4_Witness ==
    /\ variant = "unified"
    /\ pc = "validated"
    /\ analysis.category = Str(<<"d", " ">>)
    /\ exactMembers = {}
    /\ plan.category = Str(<<"D">>)

(***************************************************************************)
(* Claims about the whole route (Spec).                                    *)
(***************************************************************************)
filterCompiled == pc \in {"compiled", "numeric", "executed"} \/ (pc = "done" /\ compiled # NotCompiled)

\* C5: in both variants the category of the plan that reaches runQuery is
\* null or a member of meta.categories, and a category outside the set gives
\* no category clause in the compiled filter and no request failure.
C5_CategoryNullOrKnown ==
    /\ planBuilt =>
          \/ plan.category = Null
          \/ plan.category.ty = "str" /\ plan.category.s \in Range(meta.categories)
    /\ filterCompiled =>
          \A i \in 1..Len(compiled.where) :
              compiled.where[i] = CondEq(categoryField) =>
                  \E j \in 1..Len(compiled.params) :
                      /\ compiled.params[j].ty = "str"
                      /\ compiled.params[j].s \in Range(meta.categories)

\* The statement runQuery builds for a plan, its text and its arguments
\* (empty when the handler throws before building one).
statementFor(p) ==
    dispatch(variant, db, p, whereClauses(meta, p, candidateIds), whereParams(p)).st

statementRan == stmt # NoStatement

nonBlank(v) == v.ty = "str" /\ trim(v.s) # <<>>

\* The categories a validated plan of this request's variant can hold.
planCategories ==
    IF variant = "two_stage"
    THEN {resolveCategory(p1, hintCategory, meta.categories) : p1 \in SpecPlan1s}
    ELSE {resolveAgainst(a.category, meta.categories) : a \in SpecAnalyses}

C2_FilterValueBound ==
    (statementRan /\ nonBlank(plan.filterValue)) =>
        /\ \A v \in Texts({"1", "'", " "}) :
              nonBlank(v) => SqlText(statementFor([plan EXCEPT !.filterValue = v])) = SqlText(stmt)
        /\ hasAttributeFilter(plan) => \E i \in 1..Len(stmt.args) : stmt.args[i] = plan.filterValue

C2_UrnBound ==
    statementRan =>
        /\ \A u \in {Str(U1), Str(U2), Str(<<"'", "1">>)} :
              SqlText(statementFor([plan EXCEPT !.urn = u])) = SqlText(stmt)
        /\ \E i \in 1..Len(stmt.args) : stmt.args[i] = plan.urn

C2_CategoryBound ==
    (statementRan /\ plan.category # Null) =>
        \A c \in planCategories \ {Null} :
            SqlText(statementFor([plan EXCEPT !.category = c])) = SqlText(stmt)

\* C2: two validated plans that differ only in the content of filterValue
\* (both non-blank), of urn, or of a non-null category give the same SQL
\* text; the value is only among the bound parameters.
C2_ValuesNeverInSqlText == C2_FilterValueBound /\ C2_UrnBound /\ C2_CategoryBound

\* The statements of the log.
storeQueries == SelectSeq(log, LAMBDA e : e.ev = "store")

\* A statement holds the clause urn = ? and the placeholder of that clause is
\* bound to the request's urn.
scopedByUrn(q) ==
    \E i \in 1..(Len(q.sql) - 2) :
        /\ q.sql[i] = "urn" /\ q.sql[i + 1] = " = " /\ q.sql[i + 2] = "?"
        /\ Placeholders(SubSeq(q.sql, 1, i + 2)) <= Len(q.args)
        /\ q.args[Placeholders(SubSeq(q.sql, 1, i + 2))] = req.urn

ownIds == {i \in 1..Len(db) : db[i].urn = req.urn}

\* C3: every statement issued for a request holds urn = ? bound to the
\* request's urn, the compiled filter has it as its first conjunct, and what
\* the task reads are elements of that model only.
C3_EveryQueryScoped ==
    /\ \A i \in 1..Len(storeQueries) : scopedByUrn(storeQueries[i])
    /\ filterCompiled =>
          /\ Len(compiled.where) > 0
          /\ compiled.where[1] = CondEq(<<"urn">>)
          /\ Len(compiled.params) > 0
          /\ compiled.params[1] = req.urn
    /\ statementRan =>
          /\ Range(statementIds(db, stmt)) \subseteq ownIds
          /\ Range(result.docs) \subseteq ownIds
          /\ result.kind = "count" => result.count <= Cardinality(ownIds)

\* A list task has run on a store that holds an element of another model
\* too, and returned an element.
C3_Witness ==
    /\ pc = "executed"
    /\ result.kind = "list"
    /\ Len(result.docs) > 0
    /\ ownIds # 1..Len(db)
    /\ Len(storeQueries) = Len(SAMPLE_KEYS) + 3

plainPlan == [plan EXCEPT !.useSemanticSearch = Bool(FALSE)]

plainRun ==
    dispatch(variant, db, plainPlan, whereClauses(meta, plainPlan, NoCandidates),
             whereParams(plainPlan))

\* C8: when semantic search fails (generateEmbedding throws or returns no
\* embedding, semanticSearch throws) runQuery goes on: candidateIds stays
\* null, the filter holds no id IN clause, and filter, parameters and task
\* result are those of the same plan with useSemanticSearch = false.
C8_SemanticFailureDegrades ==
    semantic \in SemanticFailures =>
        /\ candidateIds = NoCandidates
        /\ pc = "restricted" => res = Pending
        /\ filterCompiled =>
              /\ \A i \in 1..Len(compiled.where) : compiled.where[i].op # "in"
              /\ compiled.where = whereClauses(meta, plainPlan, NoCandidates)
              /\ compiled.params = whereParams(plainPlan)
        /\ pc \in {"numeric", "executed"} =>
              /\ ~plainRun.threw
              /\ stmt = plainRun.st
              /\ result = IF pc = "numeric" \/ ~plainRun.awaitsNumeric THEN plainRun.result
                          ELSE sumResult(plainRun.result, numeric)
        /\ (pc = "done" /\ filterCompiled /\ ~statementRan) =>
              /\ plainRun.threw
              /\ res = NextErr(plainRun.error)

\* semanticSearch threw for a count plan, and the count is that of the
\* unrestricted filter.
C8_Witness ==
    /\ semantic = "search_threw"
    /\ pc = "executed"
    /\ result.kind = "count"
    /\ result.count = 2

\* The plan asks for distinct or group_count and holds no target field.
missingTarget ==
    /\ planBuilt
    /\ String(plan.task) \in {<<"distinct">>, <<"group_count">>}
    /\ plan.targetParam = Null

\* The events of the request from the call of runQuery on.
sinceRunQuery ==
    IF \E i \in 1..Len(log) : log[i].ev = "runQuery"
    THEN SubSeq(log, (CHOOSE i \in 1..Len(log) : log[i].ev = "runQuery") + 1, Len(log))
    ELSE <<>>

\* The request fails with the handler's error, runQuery returns no result and
\* no answer is synthesized.
failsForMissingTarget ==
    /\ pc \notin {"numeric", "executed"}
    /\ result = NoResult
    /\ res.status \in {"pending", "error"}
    /\ pc = "done" =>
          res = NextErr(IF String(plan.task) = <<"distinct">>
                        THEN "distinct requires targetParam"
                        ELSE "group_count requires targetParam")
    /\ \A i \in 1..Len(log) : log[i].ev # "llm_text"

\* C9 as stated: a distinct or group_count plan whose targetParam is null
\* fails with "requires targetParam" before any store query is executed, and
\* the request ends as a failure with no answer synthesized.
C9_FailsBeforeAnyStoreQuery ==
    missingTarget =>
        /\ failsForMissingTarget
        /\ \A i \in 1..Len(sinceRunQuery) :
              sinceRunQuery[i].ev \notin {"store", "semantic_search"}

\* C9 as amended: such a plan fails with "requires targetParam" before any
\* statement of a task handler is executed (the semantic-search lookup of the
\* two-stage variant may have run), and the request ends as a failure with no
\* answer synthesized.
C9_FailsBeforeAnyTaskStatement ==
    missingTarget =>
        /\ failsForMissingTarget
        /\ stmt = NoStatement
        /\ \A i \in 1..Len(sinceRunQuery) : sinceRunQuery[i].ev # "store"

\* A distinct plan whose raw targetParam was outside the allow-list has
\* failed after a semantic search that found candidates.
C9_Witness ==
    /\ pc = "done"
    /\ missingTarget
    /\ semantic = "found"
    /\ String(plan.task) = <<"distinct">>
    /\ Truthy(rawTargetParam)
    /\ res = NextErr("distinct requires targetParam")

\* C10: the values a distinct plan with a valid targetParam returns hold no
\* null entry, no blank entry and no value twice.
C10_DistinctValuesClean ==
    result.kind = "distinct" =>
        /\ \A i \in 1..Len(result.values) : trim(result.values[i]) # <<>>
        /\ NoDuplicates(result.values)

(***************************************************************************)
(* Claims about the error policy of the task handlers and of the route     *)
(* (Spec).                                                                 *)
(***************************************************************************)
\* The errors a task handler raises itself.
handlerErrors ==
    {"distinct requires targetParam", "group_count requires targetParam",
     "sum_area requires propsFlatKey"}

\* The task runQuery dispatches on is not distinct or group_count.
otherTask == planBuilt /\ String(plan.task) \notin {<<"distinct">>, <<"group_count">>}

\* C11: for a validated plan whose task is count, list, sum_area or
\* sum_volume (a sum_area plan without propsFlatKey and an empty filtered set
\* included) no task handler raises an error: once the filter is compiled
\* the request never ends with a handler's error, and a request that ends in
\* failure after compilation had its statement executed.
C11_OtherHandlersDoNotFail ==
    otherTask =>
        /\ res.error \notin handlerErrors
        /\ (pc = "done" /\ filterCompiled /\ res.status = "error") => stmt # NoStatement

\* The category the reasoning service returned.
rawCategory == IF variant = "two_stage" THEN plan1.category ELSE analysis.category

\* The returned category matches no discovered category, not even ignoring case.
unmatchedCategory ==
    /\ Truthy(rawCategory)
    /\ \A i \in 1..Len(meta.categories) :
          toLowerCase(meta.categories[i]) # toLowerCase(norm(rawCategory))

disallowedFilterParam == Truthy(rawFilterParam) /\ ~inAllowList(rawFilterParam)
disallowedTargetParam == Truthy(rawTargetParam) /\ ~inAllowList(rawTargetParam)

\* The downgraded fields of the validated plan are null.
C12_DowngradedFieldsNull ==
    planBuilt =>
        /\ disallowedFilterParam => plan.filterParam = Null
        /\ disallowedTargetParam => plan.targetParam = Null
        /\ unmatchedCategory => plan.category = Null

\* A request whose plan was downgraded does not end with a handler's error;
\* it fails only when a reasoning call fails.
C12_DowngradeDoesNotFail ==
    (planBuilt /\ (disallowedFilterParam \/ disallowedTargetParam \/ unmatchedCategory)) =>
        /\ res.error \notin handlerErrors
        /\ res.status = "error" => res.error = "reasoning service"

\* C12: when the reasoning service returns a filterParam or targetParam
\* outside the allow-list or a category that matches nothing, for any task,
\* the field is null in the validated plan and the request is not failed for
\* it: it executes its query and ends with an answer.
C12_DowngradeNotAnError == C12_DowngradedFieldsNull /\ C12_DowngradeDoesNotFail

(***************************************************************************)
(* Claims about the order of the stages of one request (Spec).             *)
(***************************************************************************)
\* The number of statements getMeta runs.
metaQueryCount == Len(SAMPLE_KEYS) + 2

\* The events of one kind in the log.
eventsOf(kind) == SelectSeq(log, LAMBDA e : e.ev = kind)

\* The intent call (two-stage) or the analysis call (unified) has answered
\* "general".
classifiedGeneral ==
    /\ pc \in {"intent_resolved", "done"}
    /\ IF variant = "two_stage" THEN plan1.intent = Str(<<"general">>)
       ELSE analysis.intent = Str(<<"general">>)

\* The reasoning calls for JSON made up to and including the classification.
callsUpToClassification ==
    IF variant = "two_stage" /\ Len(meta.categories) > 0 THEN 2 ELSE 1

\* C13: once the question is classified "general" the request makes one
\* text-generation call and responds with its answer: no parameter call, no
\* plan, no runQuery, no store query and no semantic search follow the
\* classification, and the response has no hits field.
C13_GeneralShortCircuits ==
    classifiedGeneral =>
        /\ Len(eventsOf("llm_json")) = callsUpToClassification
        /\ plan2 = NoPlan2 /\ plan = NoPlan
        /\ semantic = "none" /\ candidateIds = NoCandidates
        /\ compiled = NotCompiled /\ stmt = NoStatement /\ result = NoResult
        /\ Len(eventsOf("runQuery")) = 0
        /\ Len(eventsOf("embed")) = 0 /\ Len(eventsOf("semantic_search")) = 0
        /\ Len(eventsOf("store")) = metaQueryCount
        /\ log[Len(log)].ev \in {"llm_json", "respond", "next"}
        /\ pc = "intent_resolved" => Len(eventsOf("llm_text")) = 0
        /\ pc = "done" =>
              /\ Len(eventsOf("llm_text")) = 1
              /\ res \in {JsonOk("none"), NextErr("reasoning service")}
              /\ res.hits = "none"

\* A general question of the two-stage variant, asked about a model that
\* has categories, has been answered.
C13_Witness ==
    /\ classifiedGeneral
    /\ variant = "two_stage"
    /\ Len(meta.categories) > 0
    /\ pc = "done"
    /\ res = JsonOk("none")

\* The position of the call of runQuery in the log, past its end when there
\* is none.
runQueryAt ==
    IF \E j \in 1..Len(log) : log[j].ev = "runQuery"
    THEN CHOOSE j \in 1..Len(log) :
            log[j].ev = "runQuery" /\ \A k \in 1..(j - 1) : log[k].ev # "runQuery"
    ELSE Len(log) + 1

\* The stage an event of the log belongs to: 1 store handle, 2 metadata
\* discovery, 3 plan resolution (hint, intent or analysis, parameters),
\* 4 call of runQuery, 5 and 6 semantic search, 7 task statement, 8 numeric
\* extraction, 9 answer synthesis, 10 response.
stageOf(i, rq) ==
    LET ev == log[i].ev
    IN CASE ev = "getDb" -> 1
         [] ev = "store" -> IF i > rq THEN 7 ELSE 2
         [] ev = "llm_json" -> IF i > rq THEN 8 ELSE 3
         [] ev = "hint_failed" -> 3
         [] ev = "runQuery" -> 4
         [] ev = "embed" -> 5
         [] ev = "semantic_search" -> 6
         [] ev = "llm_text" -> 9
         [] OTHER -> 10

\* The stages that issue several events: the statements of getMeta and the
\* reasoning calls of plan resolution.
repeatable == {2, 3}

\* C14: within one request the stages run in order and none is started
\* twice: getMeta's statements come before every reasoning call, the plan is
\* built and validated before the filter is compiled, the filter is compiled
\* before the task statement runs, and the answer call of a data question
\* starts only when runQuery has returned its result.
C14_StagesInOrder ==
    /\ LET rq == runQueryAt
           stage == [i \in 1..Len(log) |-> stageOf(i, rq)]
       IN \A i \in 1..(Len(log) - 1) :
             \/ stage[i] < stage[i + 1]
             \/ stage[i] = stage[i + 1] /\ stage[i] \in repeatable
    /\ Len(eventsOf("store")) <= metaQueryCount + 1
    /\ Len(eventsOf("llm_json")) <= callsUpToClassification + 2
    /\ (Len(eventsOf("llm_json")) > 0 \/ plan1 # NoPlan1 \/ analysis # NoAnalysis) =>
          /\ meta # NoMeta
          /\ log[1].ev = "getDb"
          /\ \A i \in 2..(metaQueryCount + 1) : log[i].ev = "store"
          /\ log[metaQueryCount + 1].sql = propsSql(variant)
    /\ compiled # NotCompiled =>
          /\ planBuilt
          /\ compiled.where = whereClauses(meta, plan, candidateIds)
          /\ Len(eventsOf("runQuery")) = 1
    /\ stmt # NoStatement =>
          /\ compiled # NotCompiled
          /\ Len(stmt.conds) >= Len(compiled.where)
          /\ SubSeq(stmt.conds, 1, Len(compiled.where)) = compiled.where
    /\ result # NoResult => stmt # NoStatement
    /\ (Len(eventsOf("llm_text")) > 0 /\ ~classifiedGeneral) =>
          /\ result # NoResult
          /\ pc = "done"
          /\ result.kind \in {"sum_area", "sum_volume"} => result.docs = <<>>

\* A sum_area question of the two-stage variant went through every stage,
\* semantic search and numeric extraction included, and was answered.
C14_Witness ==
    /\ pc = "done"
    /\ res = JsonOk("result")
    /\ semantic = "found"
    /\ result.kind = "sum_area"
    /\ Len(eventsOf("llm_json")) = 4

\* No answer, full or partial, was sent and the error was handed to next.
endedAsFailure ==
    /\ pc = "done"
    /\ res.status = "error"
    /\ ~res.answer
    /\ res.hits = "none"
    /\ Len(eventsOf("respond")) = 0
    /\ Len(eventsOf("next")) = 1

\* The category-hint call of the request failed.
hintCallFailed == Len(eventsOf("hint_failed")) > 0

\* The failure of a category-hint call ends the request as a failure.
C15_HintFailureIsFatal == hintCallFailed => endedAsFailure

\* The failure of an intent, analysis, parameter, numeric-extraction or
\* answer call, or of getMeta, ends the request as a failure.
C15_OtherFailuresAreFatal ==
    res.error \in {"reasoning service", "getMeta"} => endedAsFailure

\* A failure inside the semantic-search path is caught: the request goes on
\* to compile its filter and fails only for another reason.
C15_SemanticFailureIsCaught ==
    semantic \in SemanticFailures =>
        /\ pc # "validated"
        /\ res.status = "error" => res.error \in handlerErrors \cup {"reasoning service"}

\* C15: when a reasoning call made for the request (category hint, intent or
\* analysis, parameters, numeric extraction, answer) or a store read fails,
\* the request ends as a failure handed to next and no answer is sent; only
\* a failure inside the semantic-search path is caught.
C15_UpstreamFailuresAreFatal ==
    C15_HintFailureIsFatal /\ C15_OtherFailuresAreFatal /\ C15_SemanticFailureIsCaught

\* runQuery has returned its result and the answer call has not started.
resultReturned == pc = "executed"

\* While runQuery's result waits for the answer call nothing was sent, and a
\* response to a data question follows exactly one answer call, the event
\* just before it.
answeredAfterSynthesis ==
    /\ resultReturned =>
          /\ result # NoResult
          /\ res = Pending
          /\ Len(eventsOf("llm_text")) = 0
    /\ (pc = "done" /\ res.status = "200" /\ ~classifiedGeneral) =>
          /\ result # NoResult
          /\ Len(eventsOf("llm_text")) = 1
          /\ Len(log) >= 2
          /\ log[Len(log)].ev = "respond"
          /\ log[Len(log) - 1].ev = "llm_text"
          /\ res.hits = (IF result.kind = "list" THEN "list" ELSE "result")

\* The step taken from a returned result starts the answer call, once, with
\* the result runQuery returned.
synthesisStep ==
    resultReturned =>
        /\ Len(SelectSeq(log', LAMBDA e : e.ev = "llm_text")) = 1
        /\ result' = result
        /\ pc' = "done"

\* C16: for a data question whose runQuery returns a result (an empty list
\* and a count of 0 included) the answer call is invoked exactly once with
\* that result, and the response is sent only after it.
C16_AnswerNeverSkipped == []answeredAfterSynthesis /\ [][synthesisStep]_vars

\* A list question over a store whose elements the filter all excludes was
\* answered with an empty list.
C16_Witness ==
    /\ pc = "done"
    /\ res = JsonOk("list")
    /\ result.kind = "list"
    /\ result.docs = <<>>
    /\ Len(db) > 0

(***************************************************************************)
(* Claims about the input checks, the count task, the category hint and    *)
(* the dispatch (Spec).                                                    *)
(***************************************************************************)
missingInput == ~Truthy(req.urn) \/ ~Truthy(req.question)

\* C17: a request without urn or without question is answered at once with
\* the 400 response "Missing urn" / "Missing question", and nothing else is
\* done for it: no store access, no metadata discovery, no reasoning call,
\* no embedding call and no query.
C17_MissingInputRejected ==
    (missingInput /\ pc # "start") =>
        /\ pc = "done"
        /\ res = Json400(IF ~Truthy(req.urn) THEN "Missing urn" ELSE "Missing question")
        /\ log = <<Event("respond")>>
        /\ meta = NoMeta /\ hintCategory = Null
        /\ plan1 = NoPlan1 /\ plan2 = NoPlan2 /\ analysis = NoAnalysis
        /\ plan = NoPlan /\ semantic = "none" /\ candidateIds = NoCandidates
        /\ compiled = NotCompiled /\ stmt = NoStatement
        /\ numeric = NoNumeric /\ result = NoResult

\* A request with an empty question was rejected.
C17_Witness ==
    /\ pc = "done"
    /\ req.question = Str(<<>>)
    /\ res = Json400("Missing question")

\* Element i has the text value v in column col.
hasValue(i, col, v) ==
    /\ Column(db[i], col).ty = "str"
    /\ v.ty = "str"
    /\ Column(db[i], col).s = v.s

\* The elements a count plan is about, by direct enumeration; the candidate
\* set restricts when restrictsOnIds holds and the category when
\* restrictsOnCategory holds.
countedElements(restrictsOnIds, restrictsOnCategory) ==
    {i \in 1..Len(db) :
        /\ hasValue(i, <<"urn">>, plan.urn)
        /\ restrictsOnIds => i \in Range(candidateIds.ids)
        /\ restrictsOnCategory => hasValue(i, categoryField, plan.category)
        /\ hasAttributeFilter(plan) =>
              hasValue(i, String(plan.filterParam), plan.filterValue)}

\* C18 as stated: the count of a count plan is the number of elements of the
\* plan's model whose id is in the candidate set when one was produced,
\* whose category is the plan's when it is non-null, and whose filterParam
\* column equals filterValue when the attribute filter is emitted.
C18_CountMatchesStatedFilter ==
    result.kind = "count" =>
        result.count = Cardinality(countedElements(~candidateIds.isNull,
                                                   plan.category # Null))

\* C18 as amended: the candidate set restricts only when it is non-empty
\* and the category only when it is a non-empty string.
C18_CountMatchesCompiledFilter ==
    result.kind = "count" =>
        result.count = Cardinality(countedElements(
                           ~candidateIds.isNull /\ candidateIds.ids # <<>>,
                           plan.category.ty = "str" /\ plan.category.s # <<>>))

\* A count plan with category "D" and an attribute filter counted one of the
\* two stored elements.
C18_Witness ==
    /\ pc = "executed"
    /\ result.kind = "count"
    /\ result.count = 1
    /\ Len(db) = 2
    /\ plan.category = Str(<<"D">>)
    /\ hasAttributeFilter(plan)

\* The intent call returned a category: a string that is not blank.
intentGaveCategory == Truthy(plan1.category) /\ norm(plan1.category) # <<>>

\* The hint is a member of the discovered categories.
hintIsKnown == Truthy(hintCategory) /\ String(hintCategory) \in Range(meta.categories)

\* C19: in the two-stage variant the hint becomes the plan's category only
\* when the intent call returned no category (none, or a blank one) and the
\* hint is a member of meta.categories; a category the intent call returned
\* is kept whatever the hint is, and a hint outside the category set is
\* never taken.
C19_HintOnlyBackfills ==
    (variant = "two_stage" /\ planBuilt) =>
        /\ category = plan.category
        /\ intentGaveCategory => plan.category = Str(norm(plan1.category))
        /\ (~intentGaveCategory /\ hintIsKnown) => plan.category = hintCategory
        /\ (~intentGaveCategory /\ ~hintIsKnown) => ~Truthy(plan.category)
        /\ (Truthy(hintCategory) /\ ~hintIsKnown) =>
              \/ plan.category # hintCategory
              \/ intentGaveCategory /\ norm(plan1.category) = hintCategory.s

\* The intent call returned no category and the known hint "D" became the
\* plan's category.
C19_Witness ==
    /\ variant = "two_stage"
    /\ planBuilt
    /\ plan1.category = Null
    /\ hintCategory = Str(<<"D">>)
    /\ plan.category = Str(<<"D">>)

\* C20: in both variants, for a validated plan whose task is one of count,
\* distinct, group_count, list, sum_area, sum_volume and whose required
\* field is present (the handler did not raise), the kind of the result
\* runQuery returns is the plan's task.
C20_KindEqualsTask ==
    (result # NoResult /\ \E t \in Tasks : String(plan.task) = <<t>>) =>
        <<result.kind>> = String(plan.task)

(***************************************************************************)
(* Claims about the binding of placeholders (Spec).                        *)
(***************************************************************************)
\* The conjuncts of the compiled filter that carry a placeholder.
boundConjuncts == SelectSeq(compiled.where, LAMBDA c : c.op = "eq")

categoryPresent == Truthy(plan.category)

\* The compiled filter: model scope first, the candidate-id clause second
\* and without a placeholder, then category, then attribute filter, each
\* placeholder bound to its own value in that order.
filterLinesUp ==
    LET n == Len(boundConjuncts)
    IN /\ Placeholders(WhereText(compiled.where)) = Len(compiled.params)
       /\ n = Len(compiled.params)
       /\ n = 1 + (IF categoryPresent THEN 1 ELSE 0)
                + (IF hasAttributeFilter(plan) THEN 1 ELSE 0)
       /\ compiled.where[1] = CondEq(<<"urn">>)
       /\ compiled.params[1] = plan.urn
       /\ \A i \in 1..Len(compiled.where) :
             compiled.where[i].op = "in" =>
                 /\ i = 2
                 /\ compiled.where[i].ids = candidateIds.ids
                 /\ Placeholders(CondText(compiled.where[i])) = 0
       /\ Len(compiled.where) = n + (IF ~candidateIds.isNull /\ candidateIds.ids # <<>>
                                     THEN 1 ELSE 0)
       /\ categoryPresent =>
             /\ boundConjuncts[2] = CondEq(categoryField)
             /\ compiled.params[2] = Str(trim(plan.category.s))
       /\ hasAttributeFilter(plan) =>
             /\ boundConjuncts[n] = CondEq(String(plan.filterParam))
             /\ compiled.params[n] = plan.filterValue

\* The executed statement: as many placeholders as arguments; the one
\* before the filter takes the JSON path, those of the filter take the
\* filter's parameters, the one after the filter takes the limit.
statementLinesUp ==
    LET before == Placeholders(stmt.head)
        within == Placeholders(WhereText(stmt.conds))
        after == Placeholders(stmt.tail)
    IN /\ Placeholders(SqlText(stmt)) = Len(stmt.args)
       /\ before + within + after = Len(stmt.args)
       /\ within = Len(compiled.params)
       /\ SubSeq(stmt.args, before + 1, before + within) = compiled.params
       /\ before = (IF result.kind \in {"sum_area", "sum_volume"} THEN 1 ELSE 0)
       /\ before = 1 => stmt.args[1] = jsonPath(Str(result.propsFlatKey))
       /\ after <= 1
       /\ after = 1 =>
             /\ result.kind \in {"distinct", "group_count", "list"}
             /\ stmt.args[Len(stmt.args)] = queryLimit(plan)
       /\ (variant = "two_stage" /\ result.kind \in {"distinct", "group_count", "list"}) =>
             after = 1

\* C21: for every validated plan and task the bound values line up with
\* the placeholders of the final statement: conjuncts in the order scope,
\* candidate ids, category, attribute filter; as many placeholders as bound
\* parameters, bound in the order urn, category, filterValue; no parameter
\* for the candidate-id clause; the JSON path bound to the placeholder
\* before the filter and the limit to the one after it.
C21_PlaceholdersLineUp ==
    /\ filterCompiled => filterLinesUp
    /\ statementRan => statementLinesUp

\* A list statement of the two-stage variant ran with candidate ids,
\* category and attribute filter: four conjuncts, three filter parameters
\* and the limit.
C21_Witness ==
    /\ pc = "executed"
    /\ result.kind = "list"
    /\ Len(compiled.where) = 4
    /\ Len(stmt.args) = 4
    /\ stmt.args[4] = queryLimit(plan)

====
